---- MODULE Spec2Model ----
(***************************************************************************)
(* The /api/ask request handler of amazonface-rag (src/app/api/ask/route.ts)*)
(* as a state machine: one request travels from the body read to the       *)
(* response, through the structured extraction (or its heuristic fallback),*)
(* the question embedding, the catalog load, the ranking, the filter       *)
(* combination and the per-result image lookups.                           *)
(*                                                                         *)
(* JavaScript strings are tuples of one-character strings, so that         *)
(* toLowerCase, trim, includes and the regular expressions are computed    *)
(* character by character, as the engine computes them.                    *)
(***************************************************************************)
EXTENDS Integers, Sequences, FiniteSets, TLC

-----------------------------------------------------------------------------
(* JavaScript strings *)

UpperCaseLetters == <<"A","B","C","D","E","F","G","H","I","J","K","L","M","N","O","P","Q","R","<<",">>T","U","V","W","X","Y","Z">>

LowerCaseLetters == <<"a","b","c","d","e","f","g","h","i","j","k","l","m","n","o","p","q","r","s","t","u","v","w","x","y","z">>

\* the class [a-z] of the exclusivity patterns
AtoZ == {LowerCaseLetters[i] : i \in DOMAIN LowerCaseLetters}

IsAtoZ(c) == c \in AtoZ

LowerCaseOf == [c \in {UpperCaseLetters[i] : i \in DOMAIN UpperCaseLetters} |->
                  LowerCaseLetters[CHOOSE i \in DOMAIN UpperCaseLetters : UpperCaseLetters[i] = c]]

toLowerCaseChar(c) == IF c \in DOMAIN LowerCaseOf THEN LowerCaseOf[c] ELSE c

\* String.prototype.toLowerCase
toLowerCase(s) == [i \in 1..Len(s) |-> toLowerCaseChar(s[i])]

\* s has t at offset i (0-based)
HasAt(s, t, i) == i + Len(t) <= Len(s) /\ \A j \in 1..Len(t) : s[i + j] = t[j]

\* String.prototype.includes: t occurs in s as a contiguous substring
includes(s, t) == \E i \in 0..(Len(s) - Len(t)) : HasAt(s, t, i)

IsWhiteSpace(c) == c = " "

\* String.prototype.trim
trim(s) ==
  LET keep == {i \in 1..Len(s) : ~IsWhiteSpace(s[i])}
  IN IF keep = {} THEN << >>
     ELSE LET lo == CHOOSE i \in keep : \A j \in keep : i <= j
              hi == CHOOSE i \in keep : \A j \in keep : j <= i
          IN SubSeq(s, lo, hi)

-----------------------------------------------------------------------------
(* JavaScript / JSON values: a tag and, for a string, its characters.      *)
(* "num" stands for a non-zero number, "obj" for a non-null object.        *)

Str(s) == [t |-> "str", s |-> s]

Null == [t |-> "null", s |-> << >>]

Undefined == [t |-> "undefined", s |-> << >>]

True == [t |-> "true", s |-> << >>]

False == [t |-> "false", s |-> << >>]

Num == [t |-> "num", s |-> << >>]

\* ToBoolean: what `if (v)` and `!v` test
Truthy(v) == v.t \in {"true", "num", "obj"} \/ (v.t = "str" /\ v.s # << >>)

IsString(v) == v.t = "str"

\* v ?? null
NullishToNull(v) == IF v.t \in {"null", "undefined"} THEN Null ELSE v

-----------------------------------------------------------------------------
(* Synonym dictionaries, in the insertion order Object.entries walks *)

speciesSynonyms == << <<"t","r","e","e">>, <<"t","r","e","e","s">>, <<"p","l","a","n","t">>, <<"p","l","a","n","t","s">>, <<"v","e","g","e","t","a","t","i","o","n">>, <<"s","p","e","c","i","e","s">> >>

ecosystemServiceSynonyms ==
  << [canonical |-> <<"M","e","d","i","c","i","n","a","l">>,
      synonyms |-> << <<"m","e","d","i","c","i","n","e">>, <<"m","e","d","i","c","i","n","a","l">>, <<"h","e","a","l","i","n","g">>, <<"r","e","m","e","d","y">>, <<"p","h","a","r","m","a","c","e","u","t","i","c","a","l">>, <<"h","e","a","l","t","h">> >>],
     [canonical |-> <<"F","o","o","d">>,
      synonyms |-> << <<"f","o","o","d">>, <<"e","d","i","b","l","e">>, <<"n","u","t","r","i","t","i","o","n">>, <<"e","a","t">>, <<"e","a","t","i","n","g">>, <<"c","o","n","s","u","m","e","d">>, <<"n","u","t","r","i","t","i","o","n","a","l">> >>],
     [canonical |-> <<"R","a","w"," ","M","a","t","e","r","i","a","l">>,
      synonyms |-> << <<"r","a","w"," ","m","a","t","e","r","i","a","l">>, <<"m","a","t","e","r","i","a","l">>, <<"t","i","m","b","e","r">>, <<"w","o","o","d">>, <<"c","o","n","s","t","r","u","c","t","i","o","n">>, <<"b","u","i","l","d","i","n","g">>, <<"f","i","b","e","r">>, <<"l","a","t","e","x">>, <<"r","e","s","o","u","r","c","e">> >>] >>

partUsedSynonyms ==
  << [canonical |-> <<"f","r","u","i","t">>, synonyms |-> << <<"f","r","u","i","t">>, <<"f","r","u","i","t","s">>, <<"e","d","i","b","l","e"," ","f","r","u","i","t">> >>],
     [canonical |-> <<"s","e","e","d">>, synonyms |-> << <<"s","e","e","d">>, <<"s","e","e","d","s">>, <<"e","d","i","b","l","e"," ","s","e","e","d">> >>],
     [canonical |-> <<"b","a","r","k">>, synonyms |-> << <<"b","a","r","k">> >>],
     [canonical |-> <<"t","r","u","n","k">>, synonyms |-> << <<"t","r","u","n","k">>, <<"w","o","o","d">>, <<"t","i","m","b","e","r">> >>],
     [canonical |-> <<"l","e","a","v","e","s">>, synonyms |-> << <<"l","e","a","f">>, <<"l","e","a","v","e","s">>, <<"e","d","i","b","l","e"," ","l","e","a","v","e","s">> >>],
     [canonical |-> <<"r","o","o","t">>, synonyms |-> << <<"r","o","o","t">>, <<"r","o","o","t","s">> >>],
     [canonical |-> <<"l","a","t","e","x">>, synonyms |-> << <<"l","a","t","e","x">> >>],
     [canonical |-> <<"r","e","s","i","n">>, synonyms |-> << <<"r","e","s","i","n">> >>],
     [canonical |-> <<"b","r","a","n","c","h">>, synonyms |-> << <<"b","r","a","n","c","h">>, <<"b","r","a","n","c","h","e","s">> >>],
     [canonical |-> <<"f","l","o","w","e","r">>, synonyms |-> << <<"f","l","o","w","e","r">>, <<"f","l","o","w","e","r","s">> >>],
     [canonical |-> <<"s","a","p">>, synonyms |-> << <<"s","a","p">> >>] >>

\* the least element of a non-empty set of integers
Least(S) == CHOOSE i \in S : \A j \in S : i <= j

\* the greatest element of a non-empty set of integers
Greatest(S) == CHOOSE i \in S : \A j \in S : j <= i

-----------------------------------------------------------------------------
(* normalizeField, defined inside the try block of the extraction *)

\* value.trim() raises a TypeError when value is truthy and not a string
normalizeFieldThrows(value) == Truthy(value) /\ ~IsString(value)

\* the loop keeps going after a match: the last matching entry wins
normalizeField_lastMatch(value, synonymsDict) ==
  IF ~Truthy(value) THEN Null
  ELSE LET lowerValue == toLowerCase(trim(value.s))
           hits == {i \in DOMAIN synonymsDict :
                      \/ toLowerCase(synonymsDict[i].canonical) = lowerValue
                      \/ \E j \in DOMAIN synonymsDict[i].synonyms :
                           toLowerCase(synonymsDict[i].synonyms[j]) = lowerValue}
       IN IF hits # {} THEN Str(synonymsDict[Greatest(hits)].canonical) ELSE value

\* the fallback returns the trimmed value
normalizeField_returnsTrimmed(value, synonymsDict) ==
  IF ~Truthy(value) THEN Null
  ELSE LET lowerValue == toLowerCase(trim(value.s))
           hits == {i \in DOMAIN synonymsDict :
                      \/ toLowerCase(synonymsDict[i].canonical) = lowerValue
                      \/ \E j \in DOMAIN synonymsDict[i].synonyms :
                           toLowerCase(synonymsDict[i].synonyms[j]) = lowerValue}
       IN IF hits # {} THEN Str(synonymsDict[Least(hits)].canonical) ELSE Str(trim(value.s))

normalizeField(value, synonymsDict) ==
  IF ~Truthy(value) THEN Null
  ELSE LET lowerValue == toLowerCase(trim(value.s))
           hits == {i \in DOMAIN synonymsDict :
                      \/ toLowerCase(synonymsDict[i].canonical) = lowerValue
                      \/ \E j \in DOMAIN synonymsDict[i].synonyms :
                           toLowerCase(synonymsDict[i].synonyms[j]) = lowerValue}
       IN IF hits # {} THEN Str(synonymsDict[Least(hits)].canonical) ELSE value

-----------------------------------------------------------------------------
(* The heuristic parser: the catch block of the extraction *)

\* the query before any extraction wrote to it
EmptyQuery == [species |-> Null, ecosystemService |-> Null, partUsed |-> Null]

\* synonyms.some((syn) => lowerQ.includes(syn))
someSynonymIncluded(lowerQ, synonyms) ==
  \E j \in DOMAIN synonyms : includes(lowerQ, synonyms[j])

\* the entries of a dictionary with a synonym inside the question
synonymHits(lowerQ, synonymsDict) ==
  {i \in DOMAIN synonymsDict : someSynonymIncluded(lowerQ, synonymsDict[i].synonyms)}

\* 1. EcosystemService detection: the first service with a hit, then break
detectEcosystemService(q, lowerQ) ==
  LET hits == synonymHits(lowerQ, ecosystemServiceSynonyms)
  IN IF hits = {} THEN q
     ELSE [q EXCEPT !.ecosystemService = Str(ecosystemServiceSynonyms[Least(hits)].canonical)]

\* the part detection without its guard on the service
detectPartUsed_unguarded(q, lowerQ) ==
  LET hits == synonymHits(lowerQ, partUsedSynonyms)
  IN IF hits = {} THEN q
     ELSE [q EXCEPT !.partUsed = Str(partUsedSynonyms[Least(hits)].canonical)]

\* 2. PartsUsed detection, only if not already matched as ecosystemService
detectPartUsed(q, lowerQ) ==
  LET hits == synonymHits(lowerQ, partUsedSynonyms)
  IN IF Truthy(q.ecosystemService) \/ hits = {} THEN q
     ELSE [q EXCEPT !.partUsed = Str(partUsedSynonyms[Least(hits)].canonical)]

\* 3. Species detection: a generic term sets species to null
detectSpecies(q, lowerQ) ==
  IF someSynonymIncluded(lowerQ, speciesSynonyms) THEN [q EXCEPT !.species = Null] ELSE q

\* the four expressions /pre([a-z]+)suf/, in list order
onlyPartsUsedPatterns ==
  << [pre |-> <<"o","n","l","y"," ","t","h","e"," ">>, suf |-> <<" ","a","r","e"," ","u","s","e","d">>],
     [pre |-> << >>, suf |-> <<" ","a","r","e"," ","t","h","e"," ","o","n","l","y"," ","p","a","r","t"," ","u","s","e","d">>],
     [pre |-> <<"p","a","r","t","s"," ","u","s","e","d"," ","i","s"," ","o","n","l","y"," ">>, suf |-> << >>],
     [pre |-> <<"t","h","e"," ","o","n","l","y"," ","v","a","l","u","e"," ","i","n"," ","p","a","r","t","s","u","s","e","d"," ","i","s"," ">>, suf |-> << >>] >>

\* the length of the run of [a-z] that starts at position p (1-based) of s
LetterRun(s, p) ==
  LET stops == {j \in p..Len(s) : ~IsAtoZ(s[j])}
  IN IF stops = {} THEN Len(s) - p + 1 ELSE Least(stops) - p

\* the capture lengths with which the pattern matches s from offset i
CaptureLengths(s, pattern, i) ==
  IF ~HasAt(s, pattern.pre, i) THEN {}
  ELSE {k \in 1..LetterRun(s, i + Len(pattern.pre) + 1) :
          HasAt(s, pattern.suf, i + Len(pattern.pre) + k)}

\* lowerQ.match(pattern): match[1] of the leftmost match, the group greedy;
\* the empty string when the pattern does not match
matchGroup(s, pattern) ==
  LET starts == {i \in 0..Len(s) : CaptureLengths(s, pattern, i) # {}}
  IN IF starts = {} THEN << >>
     ELSE LET i == Least(starts)
              k == Greatest(CaptureLengths(s, pattern, i))
          IN SubSeq(s, i + Len(pattern.pre) + 1, i + Len(pattern.pre) + k)

\* Object.entries(partUsedSynonyms).find(...): the canonical part of a token,
\* or the token itself
normalizedPart(token) ==
  LET hits == {i \in DOMAIN partUsedSynonyms :
                 \/ toLowerCase(partUsedSynonyms[i].canonical) = token
                 \/ \E j \in DOMAIN partUsedSynonyms[i].synonyms :
                      partUsedSynonyms[i].synonyms[j] = token}
  IN IF hits # {} THEN partUsedSynonyms[Least(hits)].canonical ELSE token

\* the loop without its break: the last pattern that matches wins
firstOnlyPattern_noBreak(lowerQ) ==
  LET hits == {p \in DOMAIN onlyPartsUsedPatterns :
                 matchGroup(lowerQ, onlyPartsUsedPatterns[p]) # << >>}
  IN IF hits = {} THEN 0 ELSE Greatest(hits)

\* the pattern the loop stops at: the first one that matches (0 when none)
firstOnlyPattern(lowerQ) ==
  LET hits == {p \in DOMAIN onlyPartsUsedPatterns :
                 matchGroup(lowerQ, onlyPartsUsedPatterns[p]) # << >>}
  IN IF hits = {} THEN 0 ELSE Least(hits)

\* 4. Fallback for 'only' logic on PartsUsed; st is [query, only]
detectOnly(st, lowerQ) ==
  LET p == firstOnlyPattern(lowerQ)
  IN IF p = 0 THEN st
     ELSE [query |-> [st.query EXCEPT !.partUsed =
                        Str(normalizedPart(matchGroup(lowerQ, onlyPartsUsedPatterns[p])))],
           only |-> True]

\* the whole catch block, on the query and `only` it finds
heuristicParse(q, o, questionText) ==
  LET lowerQ == toLowerCase(questionText)
  IN detectOnly([query |-> detectSpecies(detectPartUsed(detectEcosystemService(q, lowerQ), lowerQ), lowerQ),
                 only |-> o], lowerQ)

\* 4. Count query detection: /how many|number of|count/i.test(question)
isCountQueryOf(questionText) ==
  LET lowerQ == toLowerCase(questionText)
  IN includes(lowerQ, <<"h","o","w"," ","m","a","n","y">>) \/ includes(lowerQ, <<"n","u","m","b","e","r"," ","o","f">>) \/ includes(lowerQ, <<"c","o","u","n","t">>)

-----------------------------------------------------------------------------
(* The structured extraction: the try block *)

\* the try block, had it assigned `only`, `and` and the fields of query one
\* by one as it read them
tryExtract_fieldByField(reply, st) ==
  IF reply.kind # "object" THEN [st EXCEPT !.threw = TRUE]
  ELSE LET read == [st EXCEPT !.only = reply.only, !.and = reply.and,
                              !.query.species = NullishToNull(reply.species)]
       IN IF normalizeFieldThrows(NullishToNull(reply.ecosystemService)) THEN [read EXCEPT !.threw = TRUE]
          ELSE LET service == [read EXCEPT !.query.ecosystemService =
                                 normalizeField(NullishToNull(reply.ecosystemService), ecosystemServiceSynonyms)]
               IN IF normalizeFieldThrows(NullishToNull(reply.partUsed)) THEN [service EXCEPT !.threw = TRUE]
                  ELSE [service EXCEPT !.query.partUsed =
                          normalizeField(NullishToNull(reply.partUsed), partUsedSynonyms),
                        !.usedLLM = TRUE]

\* what the try block leaves behind; st is [threw, query, only, and, usedLLM].
\* JSON.parse and the completion call raise before anything is assigned, and
\* so do llmQuery.species on a null llmQuery and value.trim() on a value that
\* is not a string: the object literal is assigned to query only once both
\* normalizeField calls have returned.
tryExtract(reply, st) ==
  IF reply.kind # "object" THEN [st EXCEPT !.threw = TRUE]
  ELSE IF normalizeFieldThrows(NullishToNull(reply.ecosystemService)) THEN [st EXCEPT !.threw = TRUE]
  ELSE IF normalizeFieldThrows(NullishToNull(reply.partUsed)) THEN [st EXCEPT !.threw = TRUE]
  ELSE [threw |-> FALSE,
        query |-> [species |-> NullishToNull(reply.species),
                   ecosystemService |-> normalizeField(NullishToNull(reply.ecosystemService), ecosystemServiceSynonyms),
                   partUsed |-> normalizeField(NullishToNull(reply.partUsed), partUsedSynonyms)],
        only |-> reply.only,
        and |-> reply.and,
        usedLLM |-> TRUE]

-----------------------------------------------------------------------------
(* The semantic ranking *)

RECURSIVE GCD(_, _)
GCD(a, b) == IF b = 0 THEN a ELSE GCD(b, a % b)

RECURSIVE SumTo(_, _)
\* f[1] + ... + f[n]
SumTo(f, n) == IF n = 0 THEN 0 ELSE f[n] + SumTo(f, n - 1)

dot(a, b) == SumTo([i \in 1..Len(a) |-> a[i] * b[i]], Len(a))

\* the entries of the catalog carry no similarity
NoSimilarity == [def |-> FALSE, sgn |-> 0, num |-> 0, den |-> 1]

\* cosineSimilarity(a, b) = dot / (normA * normB), kept exact: its sign and
\* its square dot^2 / (|a|^2 |b|^2) in lowest terms. Embeddings are non-zero.
cosineSimilarity(a, b) ==
  LET d == dot(a, b)
      n == dot(a, a) * dot(b, b)
      g == GCD(d * d, n)
  IN [def |-> TRUE,
      sgn |-> IF d > 0 THEN 1 ELSE IF d < 0 THEN -1 ELSE 0,
      num |-> (d * d) \div g,
      den |-> n \div g]

\* x < y for two defined similarities
SimilarityLess(x, y) == x.sgn * x.num * y.den < y.sgn * y.num * x.den

\* the entries of the loaded file, each with its position idx in the file
\* (the identity of the JavaScript object) and no similarity
loadedItems(data) ==
  [i \in 1..Len(data) |-> [idx |-> i, Species |-> data[i].Species,
                           EcosystemService |-> data[i].EcosystemService,
                           PartsUsed |-> data[i].PartsUsed,
                           embedding |-> data[i].embedding,
                           similarity |-> NoSimilarity]]

\* dataWithEmbeddings.map((entry) => ({...entry, similarity: ...}))
withSimilarity(items, questionVector) ==
  [i \in 1..Len(items) |->
     [items[i] EXCEPT !.similarity = cosineSimilarity(questionVector, items[i].embedding)]]

\* the comparator (a, b) => b.similarity - a.similarity is negative
comesBefore(a, b) == SimilarityLess(b.similarity, a.similarity)

\* the insertion of a sort that is not stable: x goes before its equals
insertSorted_beforeEquals(sorted, x) ==
  LET notBefore == {i \in 1..Len(sorted) : ~comesBefore(sorted[i], x)}
      p == IF notBefore = {} THEN Len(sorted) + 1 ELSE Least(notBefore)
  IN SubSeq(sorted, 1, p - 1) \o << x >> \o SubSeq(sorted, p, Len(sorted))

\* x put into a sorted sequence behind every element that does not come after it
insertSorted(sorted, x) ==
  LET after == {i \in 1..Len(sorted) : comesBefore(x, sorted[i])}
      p == IF after = {} THEN Len(sorted) + 1 ELSE Least(after)
  IN SubSeq(sorted, 1, p - 1) \o << x >> \o SubSeq(sorted, p, Len(sorted))

RECURSIVE sortPrefix(_, _)
sortPrefix(items, n) ==
  IF n = 0 THEN << >> ELSE insertSorted(sortPrefix(items, n - 1), items[n])

\* Array.prototype.sort with the comparator: a stable sort (ECMAScript 2019)
sortBySimilarity(items) == sortPrefix(items, Len(items))

-----------------------------------------------------------------------------
(* The filter combination. A filter result is [threw, items]: a callback    *)
(* that calls toLowerCase on a value that is not a string raises a TypeError.*)

RECURSIVE keptPrefix(_, _, _)
\* the entries among the first n of items whose position is in kept, in order
keptPrefix(items, kept, n) ==
  IF n = 0 THEN << >>
  ELSE IF n \in kept THEN Append(keptPrefix(items, kept, n - 1), items[n])
  ELSE keptPrefix(items, kept, n - 1)

\* items.filter(callback), kept the positions the callback returns true for
filterItems(items, kept) == keptPrefix(items, kept, Len(items))

\* arr.some((s) => s.toLowerCase().includes(value.toLowerCase()))
someIncludes(arr, value) ==
  \E j \in DOMAIN arr : includes(toLowerCase(arr[j]), toLowerCase(value.s))

\* the sole-value test without the length test
soleValueIs_firstValue(arr, value) ==
  Len(arr) >= 1 /\ toLowerCase(arr[1]) = toLowerCase(value.s)

\* arr.length === 1 && arr[0].toLowerCase() === value.toLowerCase()
soleValueIs(arr, value) ==
  Len(arr) = 1 /\ toLowerCase(arr[1]) = toLowerCase(value.s)

\* the exclusivity callback with the species test of the default callback
onlyMatch_withSpecies(item, q) ==
  /\ ~Truthy(q.species) \/ includes(toLowerCase(item.Species), toLowerCase(q.species.s))
  /\ Truthy(q.ecosystemService) => soleValueIs(item.EcosystemService, q.ecosystemService)
  /\ Truthy(q.partUsed) => soleValueIs(item.PartsUsed, q.partUsed)

\* the callback of the filter over the whole dataset when `only` is set
onlyMatch(item, q) ==
  /\ Truthy(q.ecosystemService) => soleValueIs(item.EcosystemService, q.ecosystemService)
  /\ Truthy(q.partUsed) => soleValueIs(item.PartsUsed, q.partUsed)

\* the default callback with the service compared for equality
defaultMatch_exactService(item, q) ==
  LET speciesMatch == ~Truthy(q.species) \/ includes(toLowerCase(item.Species), toLowerCase(q.species.s))
      ecosystemMatch == ~Truthy(q.ecosystemService)
                          \/ \E j \in DOMAIN item.EcosystemService :
                               toLowerCase(item.EcosystemService[j]) = toLowerCase(q.ecosystemService.s)
      partMatch == ~Truthy(q.partUsed) \/ someIncludes(item.PartsUsed, q.partUsed)
  IN speciesMatch /\ ecosystemMatch /\ partMatch

\* the callback of the filter over the ranked entries otherwise
defaultMatch(item, q) ==
  LET speciesMatch == ~Truthy(q.species) \/ includes(toLowerCase(item.Species), toLowerCase(q.species.s))
      ecosystemMatch == ~Truthy(q.ecosystemService) \/ someIncludes(item.EcosystemService, q.ecosystemService)
      partMatch == ~Truthy(q.partUsed) \/ someIncludes(item.PartsUsed, q.partUsed)
  IN speciesMatch /\ ecosystemMatch /\ partMatch

\* the exclusivity branch filters the ranked entries instead of the dataset
primaryFilter_onlyOverRanked(data, ranked, q, o) ==
  IF Truthy(o)
  THEN [threw |-> FALSE,
        items |-> filterItems(ranked, {i \in DOMAIN ranked : onlyMatch(ranked[i], q)})]
  ELSE IF Len(ranked) > 0 /\ Truthy(q.species) /\ ~IsString(q.species)
       THEN [threw |-> TRUE, items |-> << >>]
       ELSE [threw |-> FALSE,
             items |-> filterItems(ranked, {i \in DOMAIN ranked : defaultMatch(ranked[i], q)})]

\* the primary branch: `only` selects the dataset and the callback
primaryFilter(data, ranked, q, o) ==
  IF Truthy(o)
  THEN [threw |-> FALSE,
        items |-> filterItems(data, {i \in DOMAIN data : onlyMatch(data[i], q)})]
  ELSE IF Len(ranked) > 0 /\ Truthy(q.species) /\ ~IsString(q.species)
       THEN [threw |-> TRUE, items |-> << >>]
       ELSE [threw |-> FALSE,
             items |-> filterItems(ranked, {i \in DOMAIN ranked : defaultMatch(ranked[i], q)})]

\* Handle 'only' logic: the two filters applied again to the primary result
reapplyOnly(res, q, o) ==
  IF res.threw \/ ~Truthy(o) THEN res
  ELSE LET first == IF Truthy(q.ecosystemService)
                    THEN filterItems(res.items, {i \in DOMAIN res.items :
                                                   soleValueIs(res.items[i].EcosystemService, q.ecosystemService)})
                    ELSE res.items
       IN [threw |-> FALSE,
           items |-> IF Truthy(q.partUsed)
                     THEN filterItems(first, {i \in DOMAIN first : soleValueIs(first[i].PartsUsed, q.partUsed)})
                     ELSE first]

\* one `and` field applied to items: field is "EcosystemService" or "PartsUsed"
andFieldFilter(res, value, field) ==
  IF res.threw \/ ~Truthy(value) THEN res
  ELSE IF ~IsString(value)
       THEN IF \E i \in DOMAIN res.items : Len(res.items[i][field]) > 0
            THEN [threw |-> TRUE, items |-> << >>]
            ELSE [threw |-> FALSE, items |-> << >>]
       ELSE [threw |-> FALSE,
             items |-> filterItems(res.items, {i \in DOMAIN res.items :
                                                 someIncludes(res.items[i][field], value)})]

\* the `and` logic with `else if` between its two fields
applyAnd_elseIf(res, a) ==
  IF ~Truthy(a) THEN res
  ELSE IF Truthy(a.ecosystemService) THEN andFieldFilter(res, a.ecosystemService, "EcosystemService")
  ELSE andFieldFilter(res, a.partUsed, "PartsUsed")

\* Handle 'and' logic (multiple conditions)
applyAnd(res, a) ==
  IF ~Truthy(a) THEN res
  ELSE andFieldFilter(andFieldFilter(res, a.ecosystemService, "EcosystemService"), a.partUsed, "PartsUsed")

\* everything between the catalog load and the image lookups
combineFilters(data, ranked, q, o, a) ==
  applyAnd(reapplyOnly(primaryFilter(data, ranked, q, o), q, o), a)

-----------------------------------------------------------------------------
(* One request *)

VARIABLES
  pc,                 \* where the handler stands: the await it is suspended at
  body,               \* the request body: [readable, question]
  llmReply,           \* what the completion service answers to this request
  embedReply,         \* what the embedding service answers: [fails, vector]
  catalogReply,       \* what the fetch of data_with_embeddings.json gives: [fails, data]
  gbifReplies,        \* what GBIF answers for each entry of the file: [outcome, results]
  question,           \* const { question } = await req.json()
  query,              \* let query: Query
  only,               \* let only
  and,                \* let and
  usedLLM,            \* let usedLLM
  isCountQuery,       \* const isCountQuery
  questionEmbedding,  \* let questionEmbedding (<< >> while null)
  dataWithEmbeddings, \* const dataWithEmbeddings, as loadedItems
  scored,             \* const scored, after the sort
  filtered,           \* let filtered
  pending,            \* the positions of filtered whose image lookup is in flight
  images,             \* the image list each settled lookup returned
  calls,              \* how often each collaborator was invoked
  response,           \* the response sent
  normTable,          \* normalizeField alone: the synonymsDict it is given
  normValue,          \* normalizeField alone: the value it is given first
  normResults         \* normalizeField alone: what each call so far returned

vars == << pc, body, llmReply, embedReply, catalogReply, gbifReplies, question, query,
           only, and, usedLLM, isCountQuery, questionEmbedding, dataWithEmbeddings,
           scored, filtered, pending, images, calls, response,
           normTable, normValue, normResults >>

\* what a request leaves alone: normalizeField called on its own
normalizer == << normTable, normValue, normResults >>

inputs == << body, llmReply, embedReply, catalogReply, gbifReplies >>

NoAnd == [t |-> "undefined", ecosystemService |-> Undefined, partUsed |-> Undefined]

NoResponse == [status |-> 0, kind |-> "none", count |-> 0, results |-> << >>]

ErrorResponse(status) == [status |-> status, kind |-> "error", count |-> 0, results |-> << >>]

CountResponse(n) == [status |-> 200, kind |-> "count", count |-> n, results |-> << >>]

ResultsResponse(results) == [status |-> 200, kind |-> "results", count |-> 0, results |-> results]

\* the state of the handler when the request arrives
Fresh ==
  /\ pc = "start"
  /\ question = Undefined
  /\ query = EmptyQuery
  /\ only = Undefined
  /\ and = NoAnd
  /\ usedLLM = FALSE
  /\ isCountQuery = FALSE
  /\ questionEmbedding = << >>
  /\ dataWithEmbeddings = << >>
  /\ scored = << >>
  /\ filtered = << >>
  /\ pending = {}
  /\ images = << >>
  /\ calls = [completion |-> 0, embedding |-> 0, catalog |-> 0, image |-> 0]
  /\ response = NoResponse

\* the request ends with a response
Finish(r) ==
  /\ pc' = "done"
  /\ response' = r

\* the question test misses only the undefined question
hasNoQuestion_undefinedOnly(q) == q = Undefined

\* if (!question)
hasNoQuestion(q) == ~Truthy(q)

\* await req.json() raises: the outer catch answers 500
BodyUnreadable ==
  /\ pc = "start"
  /\ ~body.readable
  /\ Finish(ErrorResponse(500))
  /\ UNCHANGED << normalizer, inputs, question, query, only, and, usedLLM, isCountQuery, questionEmbedding,
                  dataWithEmbeddings, scored, filtered, pending, images, calls >>

\* if (!question) return 400
NoQuestion ==
  /\ pc = "start"
  /\ body.readable
  /\ hasNoQuestion(body.question)
  /\ question' = body.question
  /\ Finish(ErrorResponse(400))
  /\ UNCHANGED << normalizer, inputs, query, only, and, usedLLM, isCountQuery, questionEmbedding,
                  dataWithEmbeddings, scored, filtered, pending, images, calls >>

\* the try block up to await llm.call(...)
StartExtraction ==
  /\ pc = "start"
  /\ body.readable
  /\ ~hasNoQuestion(body.question)
  /\ question' = body.question
  /\ calls' = [calls EXCEPT !.completion = @ + 1]
  /\ pc' = "awaitCompletion"
  /\ UNCHANGED << normalizer, inputs, query, only, and, usedLLM, isCountQuery, questionEmbedding,
                  dataWithEmbeddings, scored, filtered, pending, images, response >>

\* the try block from the reply on
extraction == tryExtract(llmReply, [threw |-> FALSE, query |-> query, only |-> only,
                                    and |-> and, usedLLM |-> usedLLM])

\* from the count detection to await openai.embeddings.create(...)
StartEmbedding ==
  /\ isCountQuery' = (IsString(question) /\ isCountQueryOf(question.s))
  /\ calls' = [calls EXCEPT !.embedding = @ + 1]
  /\ pc' = "awaitEmbedding"

\* the completion arrives, parses and normalises
ExtractionSucceeds ==
  /\ pc = "awaitCompletion"
  /\ ~extraction.threw
  /\ query' = extraction.query
  /\ only' = extraction.only
  /\ and' = extraction.and
  /\ usedLLM' = extraction.usedLLM
  /\ StartEmbedding
  /\ UNCHANGED << normalizer, inputs, question, questionEmbedding, dataWithEmbeddings, scored, filtered,
                  pending, images, response >>

\* the try block raises and the catch block parses the question itself
ExtractionFallsBack ==
  /\ pc = "awaitCompletion"
  /\ extraction.threw
  /\ IsString(question)
  /\ \E parsed \in {heuristicParse(extraction.query, extraction.only, question.s)} :
       /\ query' = parsed.query
       /\ only' = parsed.only
  /\ and' = extraction.and
  /\ usedLLM' = extraction.usedLLM
  /\ StartEmbedding
  /\ UNCHANGED << normalizer, inputs, question, questionEmbedding, dataWithEmbeddings, scored, filtered,
                  pending, images, response >>

\* the catch block calls question.toLowerCase() on a question that is not a
\* string: the outer catch answers 500
FallbackThrows ==
  /\ pc = "awaitCompletion"
  /\ extraction.threw
  /\ ~IsString(question)
  /\ query' = extraction.query
  /\ only' = extraction.only
  /\ and' = extraction.and
  /\ usedLLM' = extraction.usedLLM
  /\ Finish(ErrorResponse(500))
  /\ UNCHANGED << normalizer, inputs, question, isCountQuery, questionEmbedding, dataWithEmbeddings, scored,
                  filtered, pending, images, calls >>

\* the return is missing from the catch block: the file is fetched, and the
\* ranking raises on the null embedding, which the outer catch answers
EmbeddingFails_withoutReturn ==
  /\ pc = "awaitEmbedding"
  /\ embedReply.fails
  /\ calls' = [calls EXCEPT !.catalog = @ + 1]
  /\ dataWithEmbeddings' = loadedItems(catalogReply.data)
  /\ Finish(ErrorResponse(500))
  /\ UNCHANGED << normalizer, inputs, question, query, only, and, usedLLM, isCountQuery, questionEmbedding,
                  scored, filtered, pending, images >>

\* the embedding call raises: return 500
EmbeddingFails ==
  /\ pc = "awaitEmbedding"
  /\ embedReply.fails
  /\ Finish(ErrorResponse(500))
  /\ UNCHANGED << normalizer, inputs, question, query, only, and, usedLLM, isCountQuery, questionEmbedding,
                  dataWithEmbeddings, scored, filtered, pending, images, calls >>

\* the embedding arrives; up to await fetchPublicJson("data_with_embeddings.json")
EmbeddingArrives ==
  /\ pc = "awaitEmbedding"
  /\ ~embedReply.fails
  /\ questionEmbedding' = embedReply.vector
  /\ calls' = [calls EXCEPT !.catalog = @ + 1]
  /\ pc' = "awaitCatalog"
  /\ UNCHANGED << normalizer, inputs, question, query, only, and, usedLLM, isCountQuery, dataWithEmbeddings,
                  scored, filtered, pending, images, response >>

\* fetchPublicJson raises: the outer catch answers 500
CatalogLoadFails ==
  /\ pc = "awaitCatalog"
  /\ catalogReply.fails
  /\ Finish(ErrorResponse(500))
  /\ UNCHANGED << normalizer, inputs, question, query, only, and, usedLLM, isCountQuery, questionEmbedding,
                  dataWithEmbeddings, scored, filtered, pending, images, calls >>

\* const scored = dataWithEmbeddings.map(...); scored.sort(...)
rank(items, questionVector) == sortBySimilarity(withSimilarity(items, questionVector))

\* what the filters make of the file that arrives
combined ==
  LET data == loadedItems(catalogReply.data)
  IN combineFilters(data, rank(data, questionEmbedding), query, only, and)

\* a filter callback raises a TypeError: the outer catch answers 500
FilterThrows ==
  /\ pc = "awaitCatalog"
  /\ ~catalogReply.fails
  /\ combined.threw
  /\ dataWithEmbeddings' = loadedItems(catalogReply.data)
  /\ scored' = rank(dataWithEmbeddings', questionEmbedding)
  /\ Finish(ErrorResponse(500))
  /\ UNCHANGED << normalizer, inputs, question, query, only, and, usedLLM, isCountQuery, questionEmbedding,
                  filtered, pending, images, calls >>

\* the lookups filtered.map(async (item) => ...) starts: one per entry
startedLookups(items) == 1..Len(items)

\* the file arrives; ranking, filters, and every image lookup is started
RankAndFilter ==
  /\ pc = "awaitCatalog"
  /\ ~catalogReply.fails
  /\ dataWithEmbeddings' = loadedItems(catalogReply.data)
  /\ scored' = rank(dataWithEmbeddings', questionEmbedding)
  /\ \E res \in {combined} :
       /\ ~res.threw
       /\ filtered' = res.items
  /\ pending' = startedLookups(filtered')
  /\ images' = [i \in 1..Len(filtered') |-> << >>]
  /\ calls' = [calls EXCEPT !.image = @ + Cardinality(pending')]
  /\ pc' = "awaitImages"
  /\ UNCHANGED << normalizer, inputs, question, query, only, and, usedLLM, isCountQuery, questionEmbedding,
                  response >>

RECURSIVE pushMedia(_, _, _)
\* for (const media of result.media), from the m-th on: a still image with an
\* identifier is pushed while fewer than 5 are held; break at 5
pushMedia(held, media, m) ==
  IF m > Len(media) THEN held
  ELSE LET pushed == IF media[m].type = "StillImage" /\ media[m].identifier # 0 /\ Len(held) < 5
                     THEN Append(held, media[m].identifier)
                     ELSE held
       IN IF Len(pushed) >= 5 THEN pushed ELSE pushMedia(pushed, media, m + 1)

RECURSIVE pushResults(_, _, _)
\* for (const result of data.results || []), from the r-th on; break at 5
pushResults(held, results, r) ==
  IF r > Len(results) THEN held
  ELSE LET pushed == pushMedia(held, results[r], 1)
       IN IF Len(pushed) >= 5 THEN pushed ELSE pushResults(pushed, results, r + 1)

\* fetchGbifImages: the identifiers collected from the reply; none when the
\* fetch raises, the status is not OK, or the body raises while it is read
fetchGbifImages(reply) ==
  IF reply.outcome # "ok" THEN << >> ELSE pushResults(<< >>, reply.results, 1)

\* the catch block of fetchGbifImages is missing: a failed lookup rejects
\* Promise.all, and the outer catch answers 500
ImageLookupSettles_rethrows ==
  /\ pc = "awaitImages"
  /\ \E i \in pending :
       IF gbifReplies[filtered[i].idx].outcome \in {"rejects", "badBody"}
       THEN /\ Finish(ErrorResponse(500))
            /\ UNCHANGED << images, pending >>
       ELSE /\ images' = [images EXCEPT ![i] = fetchGbifImages(gbifReplies[filtered[i].idx])]
            /\ pending' = pending \ {i}
            /\ UNCHANGED << pc, response >>
  /\ UNCHANGED << normalizer, inputs, question, query, only, and, usedLLM, isCountQuery, questionEmbedding,
                  dataWithEmbeddings, scored, filtered, calls >>

\* one image lookup settles
ImageLookupSettles ==
  /\ pc = "awaitImages"
  /\ \E i \in pending :
       /\ images' = [images EXCEPT ![i] = fetchGbifImages(gbifReplies[filtered[i].idx])]
       /\ pending' = pending \ {i}
  /\ UNCHANGED << normalizer, inputs, pc, question, query, only, and, usedLLM, isCountQuery, questionEmbedding,
                  dataWithEmbeddings, scored, filtered, calls, response >>

\* return { ...item, images }
resultsWithImages == [i \in 1..Len(filtered) |-> [item |-> filtered[i], images |-> images[i]]]

\* Promise.all has settled: the count or the results
Respond ==
  /\ pc = "awaitImages"
  /\ pending = {}
  /\ Finish(IF isCountQuery THEN CountResponse(Len(filtered)) ELSE ResultsResponse(resultsWithImages))
  /\ UNCHANGED << normalizer, inputs, question, query, only, and, usedLLM, isCountQuery, questionEmbedding,
                  dataWithEmbeddings, scored, filtered, pending, images, calls >>

Next ==
  \/ BodyUnreadable
  \/ NoQuestion
  \/ StartExtraction
  \/ ExtractionSucceeds
  \/ ExtractionFallsBack
  \/ FallbackThrows
  \/ EmbeddingFails
  \/ EmbeddingArrives
  \/ CatalogLoadFails
  \/ FilterThrows
  \/ RankAndFilter
  \/ ImageLookupSettles
  \/ Respond

-----------------------------------------------------------------------------
(* normalizeField called on its own *)

\* the variables of a request
request == << pc, question, query, only, and, usedLLM, isCountQuery, questionEmbedding,
              dataWithEmbeddings, scored, filtered, pending, images, calls, response >>

\* normalizeField is not called on its own
NormalizerIdle ==
  /\ normTable = << >>
  /\ normValue = Null
  /\ normResults = << >>

\* normalizeField(value, synonymsDict) on the value given
NormalizeValue ==
  /\ normResults = << >>
  /\ ~normalizeFieldThrows(normValue)
  /\ normResults' = << normalizeField(normValue, normTable) >>
  /\ UNCHANGED << request, inputs, normTable, normValue >>

\* normalizeField(value, synonymsDict) on the value it returned
NormalizeAgain ==
  /\ Len(normResults) = 1
  /\ ~normalizeFieldThrows(normResults[1])
  /\ normResults' = Append(normResults, normalizeField(normResults[1], normTable))
  /\ UNCHANGED << request, inputs, normTable, normValue >>

NextNormalize ==
  \/ NormalizeValue
  \/ NormalizeAgain
-----------------------------------------------------------------------------
(* The requests and the collaborators' answers the model runs *)

\* the longest catalog file
MaxCatalog == 2

\* the longest catalog file of the ranking runs
MaxRanked == 3

\* the most fragments a generated question is made of
MaxFragments == 3

\* the most still images a GBIF reply holds
MaxStills == 6

\* the most entries a generated synonym table has
MaxEntries == 2

SeqsUpTo(S, n) == UNION {[1..k -> S] : k \in 0..n}

RECURSIVE Concat(_, _)
\* the first n strings of ss, joined
Concat(ss, n) == IF n = 0 THEN << >> ELSE Concat(ss, n - 1) \o ss[n]

Bertholletia ==
  [Species |-> <<"B","e","r","t","h","o","l","l","e","t","i","a"," ","e","x","c","e","l","s","a">>, EcosystemService |-> << <<"M","e","d","i","c","i","n","a","l">>, <<"F","o","o","d">> >>,
   PartsUsed |-> << <<"l","e","a","v","e","s">>, <<"b","a","r","k">> >>, embedding |-> << 1, 0 >>]

Carapa ==
  [Species |-> <<"C","a","r","a","p","a"," ","g","u","i","a","n","e","n","s","i","s">>, EcosystemService |-> << <<"M","e","d","i","c","i","n","a","l">> >>,
   PartsUsed |-> << <<"l","e","a","v","e","s">> >>, embedding |-> << 2, 0 >>]

Hevea ==
  [Species |-> <<"H","e","v","e","a"," ","b","r","a","s","i","l","i","e","n","s","i","s">>, EcosystemService |-> << <<"F","o","o","d">> >>,
   PartsUsed |-> << <<"B","a","r","k">> >>, embedding |-> << 0, 1 >>]

Unused ==
  [Species |-> <<"I","n","g","a"," ","e","d","u","l","i","s">>, EcosystemService |-> << >>,
   PartsUsed |-> << >>, embedding |-> << 1, 1 >>]

QuestionFood == <<"H","o","w"," ","m","a","n","y"," ","s","p","e","c","i","e","s"," ","p","r","o","v","i","d","e"," ","f","o","o","d","?">>

QuestionOnlyLeaves == <<"S","h","o","w"," ","m","e"," ","t","r","e","e","s"," ","t","h","a","t"," ","o","n","l","y"," ","t","h","e"," ","l","e","a","v","e","s"," ","a","r","e"," ","u","s","e","d",".">>

QuestionMedicine == <<"W","h","i","c","h"," ","p","l","a","n","t","s"," ","a","r","e"," ","u","s","e","d"," ","a","s"," ","m","e","d","i","c","i","n","e","?">>

QuestionBark == <<"A","n","y","t","h","i","n","g"," ","w","i","t","h"," ","b","a","r","k">>

Body(q) == [readable |-> TRUE, question |-> q]

UnreadableBody == [readable |-> FALSE, question |-> Undefined]

LlmFailure(kind) ==
  [kind |-> kind, species |-> Undefined, ecosystemService |-> Undefined, partUsed |-> Undefined,
   only |-> Undefined, and |-> NoAnd]

LlmObject(species, ecosystemService, partUsed, o, a) ==
  [kind |-> "object", species |-> species, ecosystemService |-> ecosystemService,
   partUsed |-> partUsed, only |-> o, and |-> a]

AndObject(ecosystemService, partUsed) ==
  [t |-> "obj", ecosystemService |-> ecosystemService, partUsed |-> partUsed]

EmbeddingFailure == [fails |-> TRUE, vector |-> << >>]

Embedding(v) == [fails |-> FALSE, vector |-> v]

CatalogFailure == [fails |-> TRUE, data |-> << >>]

Catalog(data) == [fails |-> FALSE, data |-> data]

\* fetch(gbifApiUrl) raises
GbifFailure == [outcome |-> "rejects", results |-> << >>]

\* the status of the reply is not OK
GbifNotOk == [outcome |-> "notOk", results |-> << >>]

\* resp.json() raises, or the body is not an object with results to loop over
GbifBadBody == [outcome |-> "badBody", results |-> << >>]

Still(identifier) == [type |-> "StillImage", identifier |-> identifier]

Sound(identifier) == [type |-> "Sound", identifier |-> identifier]

\* one occurrence with n still images
Gbif(n) == [outcome |-> "ok", results |-> << [m \in 1..n |-> Still(m)] >>]

\* n occurrences, each with a sound, a still image without identifier and a
\* still image
GbifSpread(n) ==
  [outcome |-> "ok", results |-> [r \in 1..n |-> << Sound(n + r), Still(0), Still(n + r) >>]]

\* one reply per entry of the file, each from Replies
GbifFor(catalog, Replies) == [1..Len(catalog.data) -> Replies]

\* a request arrives: the handler is fresh, the body and the collaborators'
\* answers are drawn from the given sets
Arrives(Bodies, LlmReplies, EmbedReplies, CatalogReplies, GbifReplySet) ==
  /\ body \in Bodies
  /\ llmReply \in LlmReplies
  /\ embedReply \in EmbedReplies
  /\ catalogReply \in CatalogReplies
  /\ gbifReplies \in GbifFor(catalogReply, GbifReplySet)
  /\ Fresh
  /\ NormalizerIdle

\* requests that take every path of the handler
FlowBodies ==
  {UnreadableBody, Body(Undefined), Body(Null), Body(Str(<< >>)), Body(Num),
   Body(Str(QuestionFood)), Body(Str(QuestionOnlyLeaves)), Body(Str(QuestionMedicine))}

FlowLlmReplies ==
  {LlmFailure("reject"), LlmFailure("badjson"), LlmFailure("null"),
   LlmObject(Undefined, Undefined, Undefined, Undefined, NoAnd),
   LlmObject(Null, Str(<<"f","o","o","d">>), Null, False, NoAnd),
   LlmObject(Null, Num, Str(<<"b","a","r","k">>), True, AndObject(Str(<<"F","o","o","d">>), Undefined)),
   LlmObject(Str(<<"H","e","v","e","a">>), Str(<<"m","e","d","i","c","i","n","e">>), True, True, AndObject(Undefined, Str(<<"b","a","r","k">>))),
   LlmObject(Num, Null, Null, Undefined, NoAnd),
   LlmObject(Null, Null, Str(<<"l","e","a","v","e","s">>), True, NoAnd),
   LlmObject(Null, Str(<<"M","e","d","i","c","i","n","a","l">>), Null, Undefined, AndObject(Undefined, Num)),
   LlmObject(Null, Str(<<"M","e","d","i","c","i","n","a","l">>), Null, Undefined, AndObject(Undefined, Str(<<"b","a","r","k">>)))}

FlowCatalogs ==
  {CatalogFailure, Catalog(<< >>), Catalog(<< Unused >>), Catalog(<< Bertholletia, Carapa >>),
   Catalog(<< Hevea, Bertholletia, Carapa >>)}

InitFlow ==
  Arrives(FlowBodies, FlowLlmReplies, {EmbeddingFailure, Embedding(<< 1, 0 >>)}, FlowCatalogs,
          {GbifFailure, Gbif(MaxStills)})

Init == InitFlow

Spec == Init /\ [][Next]_vars

\* a few requests that between them take every step of the handler
InitCoverage ==
  Arrives({UnreadableBody, Body(Undefined), Body(Num), Body(Str(QuestionFood))},
          {LlmFailure("reject"), LlmObject(Undefined, Undefined, Undefined, Undefined, NoAnd),
           LlmObject(Num, Null, Null, Undefined, NoAnd)},
          {EmbeddingFailure, Embedding(<< 1, 0 >>)},
          {CatalogFailure, Catalog(<< Bertholletia, Carapa >>)},
          {Gbif(1)})

CatalogPool == {Bertholletia, Carapa, Hevea, Unused}

\* the queries the completion service may extract
FilterLlmReplies ==
  {LlmObject(species, ecosystemService, partUsed, o, a) :
     species \in {Null, Str(<< >>), Str(<<"E","X","C","E","L","S","A">>)},
     ecosystemService \in {Null, Str(<<"m","e","d","i","c","i","n","e">>), Str(<<"f","o","o">>)},
     partUsed \in {Null, Str(<<"l","e","a","v","e","s">>), Str(<<"B","A","R","K">>)},
     o \in {Undefined, False, True},
     a \in {NoAnd, AndObject(Undefined, Str(<<"b","a","r","k">>)), AndObject(Str(<<"f","o","o","d">>), Str(<< >>)),
            AndObject(Str(<<"M","e","d","i","c","i","n","a","l">>), Str(<<"B","a","r","k">>))}}

\* every extracted query against every catalog of up to MaxCatalog entries
InitFilterRuns ==
  Arrives({Body(Str(QuestionBark))}, FilterLlmReplies, {Embedding(<< 1, 0 >>)},
          {Catalog(data) : data \in SeqsUpTo(CatalogPool, MaxCatalog)}, {Gbif(1)})

\* every catalog of up to MaxRanked entries ranked against several questions
InitRankRuns ==
  Arrives({Body(Str(QuestionBark))},
          {LlmObject(Null, Null, Null, Undefined, NoAnd), LlmObject(Null, Str(<<"f","o","o","d">>), Null, Undefined, NoAnd),
           LlmObject(Null, Null, Null, True, NoAnd)},
          {Embedding(<< 1, 0 >>), Embedding(<< 1, 1 >>), Embedding(<< -1, 1 >>)},
          {Catalog(data) : data \in SeqsUpTo(CatalogPool, MaxRanked)}, {Gbif(1)})

\* the entries the image runs draw their catalogs from
ImagePool == {Bertholletia, Carapa, Hevea}

\* every catalog of up to MaxCatalog entries, unfiltered and filtered, with
\* every outcome of each entry's image lookup
InitImageRuns ==
  Arrives({Body(Str(QuestionBark))},
          {LlmObject(Undefined, Undefined, Undefined, Undefined, NoAnd),
           LlmObject(Null, Str(<<"f","o","o","d">>), Null, False, NoAnd)},
          {Embedding(<< 1, 1 >>)},
          {Catalog(data) : data \in SeqsUpTo(ImagePool, MaxCatalog)},
          {GbifFailure, GbifNotOk, GbifBadBody, Gbif(1), Gbif(MaxStills), GbifSpread(MaxStills)})

InitImages == InitCoverage \/ InitImageRuns

SpecImages == InitImages /\ [][Next]_vars

InitFilter == InitCoverage \/ InitFilterRuns \/ InitRankRuns

SpecFilter == InitFilter /\ [][Next]_vars

\* the pieces the generated questions are made of
Fragments ==
  {<<"o","n","l","y"," ","t","h","e"," ">>, <<" ","a","r","e"," ","u","s","e","d">>, <<" ","l","e","a","f"," ","a","r","e"," ","t","h","e"," ","o","n","l","y"," ","p","a","r","t"," ","u","s","e","d">>, <<"p","a","r","t","s"," ","u","s","e","d"," ","i","s"," ","o","n","l","y"," ">>,
   <<"T","h","e"," ","o","n","l","y"," ","v","a","l","u","e"," ","i","n"," ","P","a","r","t","s","U","s","e","d"," ","i","s"," ">>, <<"W","o","o","d">>, <<"x","y","z">>, <<"l","e","a","v","e","s">>}

\* every question of up to MaxFragments pieces
GeneratedQuestions == {Concat(pieces, Len(pieces)) : pieces \in SeqsUpTo(Fragments, MaxFragments)} \ {<< >>}

\* every generated question, parsed by the fallback
InitParseRuns ==
  Arrives({Body(Str(q)) : q \in GeneratedQuestions \cup {QuestionOnlyLeaves, QuestionMedicine}},
          {LlmFailure("badjson")}, {EmbeddingFailure}, {CatalogFailure}, {Gbif(1)})

InitParse == InitCoverage \/ InitParseRuns

SpecParse == InitParse /\ [][Next]_vars


\* the canonical labels of the generated synonym tables
TableLabels == {<<"A">>, <<"b">>, <<" ","A"," ">>, << >>}

\* the synonym lists of the generated synonym tables
SynonymLists == {<< >>, << <<"a">> >>, << <<"B">> >>, << <<"x">>, <<"a">> >>}

\* the keys of an object are distinct
distinctKeys(table) == \A i, j \in DOMAIN table : table[i].canonical = table[j].canonical => i = j

\* every table of up to MaxEntries entries
GeneratedTables ==
  {table \in SeqsUpTo([canonical : TableLabels, synonyms : SynonymLists], MaxEntries) :
     distinctKeys(table)}

\* the values normalizeField is given with the generated tables
GeneratedValues ==
  {Null, Str(<< >>), Str(<<" ">>), Str(<<"a">>), Str(<<"A">>), Str(<<"b">>), Str(<<"x">>), Str(<<" ","X"," ">>), Str(<<"z","z">>)}

\* the values normalizeField is given with the tables of the handler
ExtractedValues ==
  {Null, Str(<< >>), Str(<<"w","o","o","d">>), Str(<<" ","T","i","m","b","e","r"," ">>), Str(<<"M","E","D","I","C","I","N","E">>), Str(<<"R","a","w"," ","M","a","t","e","r","i","a","l">>),
   Str(<<"r","a","w"," "," ","m","a","t","e","r","i","a","l">>), Str(<<"l","e","a","f">>), Str(<<"L","e","a","v","e","s">>), Str(<<"e","d","i","b","l","e">>), Str(<<" ","S","a","p","l","i","n","g">>)}

\* normalizeField called on its own, the handler at rest
InitNormalize ==
  /\ body = UnreadableBody
  /\ llmReply = LlmFailure("reject")
  /\ embedReply = EmbeddingFailure
  /\ catalogReply = CatalogFailure
  /\ gbifReplies = << >>
  /\ Fresh
  /\ \/ normTable \in GeneratedTables /\ normValue \in GeneratedValues
     \/ normTable \in {ecosystemServiceSynonyms, partUsedSynonyms} /\ normValue \in ExtractedValues
  /\ normResults = << >>

SpecNormalize == InitNormalize /\ [][NextNormalize]_vars
-----------------------------------------------------------------------------
(* Claims *)

\* the structured extraction of this request fails: the service raises, the
\* text is no JSON, or a field cannot be normalised
ExtractionFailed ==
  \/ llmReply.kind # "object"
  \/ llmReply.ecosystemService.t \in {"true", "num"}
  \/ llmReply.partUsed.t \in {"true", "num"}

NoCalls == [completion |-> 0, embedding |-> 0, catalog |-> 0, image |-> 0]

\* C1: a count query whose embedding call succeeds is answered {count: N}, N
\* the size of the final filtered set, and no image lookup is made for it.
C1_CountSkipsEnrichment ==
  (pc = "done" /\ isCountQuery /\ response.status = 200)
    => (response = CountResponse(Len(filtered)) /\ calls.image = 0)

\* C2: for a non-empty string question, a failed extraction produces no error
\* response: the handler goes on to the embedding call with exactly the
\* heuristic parser's query and `only`, no `and`, and usedLLM false.
C2_ExtractionFailureFallsBack ==
  [][(pc = "awaitCompletion" /\ IsString(question) /\ ExtractionFailed)
       => LET parsed == heuristicParse(EmptyQuery, Undefined, question.s)
          IN /\ pc' = "awaitEmbedding"
             /\ response' = NoResponse
             /\ query' = parsed.query
             /\ only' = parsed.only
             /\ and' = NoAnd
             /\ usedLLM' = FALSE
             /\ calls'.embedding = calls.embedding + 1]_vars

\* a reply whose ecosystemService normalised and whose partUsed did not: the
\* fallback ran and kept nothing of it
C2_Witness ==
  /\ pc = "awaitEmbedding"
  /\ llmReply.kind = "object"
  /\ ExtractionFailed
  /\ llmReply.ecosystemService = Str(<<"m","e","d","i","c","i","n","e">>)
  /\ llmReply.only = True
  /\ question = Str(QuestionFood)
  /\ query.ecosystemService = Str(<<"F","o","o","d">>)
  /\ only = Undefined
  /\ ~usedLLM

\* C3: once the embedding call has failed the request ends with a 500 error
\* response, and the catalog is never loaded, nothing is ranked or filtered,
\* no image is looked up and no results or count are answered.
C3_EmbeddingFailureAborts ==
  (calls.embedding > 0 /\ embedReply.fails)
    => /\ pc \in {"awaitEmbedding", "done"}
       /\ pc = "done" => response = ErrorResponse(500)
       /\ pc # "done" => response = NoResponse
       /\ calls.catalog = 0
       /\ calls.image = 0
       /\ dataWithEmbeddings = << >>
       /\ scored = << >>
       /\ filtered = << >>

\* the embedding failed after a successful extraction and the request ended
C3_Witness ==
  /\ pc = "done"
  /\ embedReply.fails
  /\ calls.embedding = 1
  /\ usedLLM
  /\ ~catalogReply.fails
  /\ Len(catalogReply.data) > 0
  /\ response = ErrorResponse(500)

\* C4: a request whose question is missing or empty is answered 400 with an
\* error, and no completion, embedding, catalog or image call is ever made.
C4_EmptyQuestionRejected ==
  (body.readable /\ body.question \in {Undefined, Null, Str(<< >>)})
    => /\ calls = NoCalls
       /\ pc \in {"start", "done"}
       /\ pc = "done" => response = ErrorResponse(400)
       /\ pc = "start" => response = NoResponse

\* the empty question was answered
C4_Witness ==
  /\ pc = "done"
  /\ body = Body(Str(<< >>))
  /\ response = ErrorResponse(400)
  /\ calls = NoCalls

\* the entries of the loaded file that are in the final filtered set
FinalSet == {filtered[i].idx : i \in DOMAIN filtered}

\* the filters have run on the loaded file
Filtered == pc = "awaitImages" \/ (pc = "done" /\ response.status = 200)

\* value is the only element of arr, whatever the case of the letters
IsSoleValue(arr, value) == Len(arr) = 1 /\ toLowerCase(arr[1]) = toLowerCase(value)

\* value is inside one of the elements of arr, whatever the case of the letters
IsInsideOne(arr, value) ==
  \E j \in DOMAIN arr : includes(toLowerCase(arr[j]), toLowerCase(value))

\* the entries the exclusivity branch is to keep
ExclusiveEntries ==
  {i \in DOMAIN dataWithEmbeddings :
     /\ query.ecosystemService # Null
          => IsSoleValue(dataWithEmbeddings[i].EcosystemService, query.ecosystemService.s)
     /\ query.partUsed # Null
          => IsSoleValue(dataWithEmbeddings[i].PartsUsed, query.partUsed.s)}

\* the entries the default branch is to keep
DefaultEntries ==
  {i \in DOMAIN dataWithEmbeddings :
     /\ query.species = Null
          \/ includes(toLowerCase(dataWithEmbeddings[i].Species), toLowerCase(query.species.s))
     /\ query.ecosystemService = Null
          \/ IsInsideOne(dataWithEmbeddings[i].EcosystemService, query.ecosystemService.s)
     /\ query.partUsed = Null
          \/ IsInsideOne(dataWithEmbeddings[i].PartsUsed, query.partUsed.s)}

\* an `and` field that constrains: a non-empty string
IsActive(value) == value.t = "str" /\ value.s # << >>

\* the entries that satisfy every active field of `and`
AndEntries ==
  {i \in DOMAIN dataWithEmbeddings :
     /\ IsActive(and.ecosystemService)
          => IsInsideOne(dataWithEmbeddings[i].EcosystemService, and.ecosystemService.s)
     /\ IsActive(and.partUsed)
          => IsInsideOne(dataWithEmbeddings[i].PartsUsed, and.partUsed.s)}

\* `and` is given and its fields are strings or absent
AndPresent ==
  /\ and.t = "obj"
  /\ and.ecosystemService.t \in {"str", "null", "undefined"}
  /\ and.partUsed.t \in {"str", "null", "undefined"}

\* `and` is absent, or none of its fields constrains
NoActiveAnd ==
  and.t # "obj" \/ (~Truthy(and.ecosystemService) /\ ~Truthy(and.partUsed))

\* C5 as stated: on the exclusivity branch the final set is exactly the
\* entries whose array, for every non-null field of the query, holds the
\* query value and nothing else.
C5_ExclusivityFilter_AsStated ==
  (Filtered /\ Truthy(only)) => FinalSet = ExclusiveEntries

\* C5, amended: on the exclusivity branch with no active `and` field, the
\* final set is exactly the entries whose array, for every non-null field of
\* the query, holds the query value (case-insensitively) and nothing else.
C5_ExclusivityFilter ==
  (Filtered /\ Truthy(only) /\ NoActiveAnd) => FinalSet = ExclusiveEntries

\* {partUsed: "leaves", only: true} over Bertholletia (leaves, bark) and
\* Carapa (leaves): Carapa alone is kept
C5_Witness ==
  /\ Filtered
  /\ only = True
  /\ and = NoAnd
  /\ query.partUsed = Str(<<"l","e","a","v","e","s">>)
  /\ query.ecosystemService = Null
  /\ catalogReply.data = << Bertholletia, Carapa >>
  /\ FinalSet = {2}

C7_AndIntersects ==
  (Filtered /\ AndPresent)
    => FinalSet = (IF Truthy(only) THEN ExclusiveEntries ELSE DefaultEntries) \cap AndEntries

\* `only` and `and` constrain the same field: `and` alone would admit both
\* entries, the exclusivity branch keeps the first, and so does the final set
C7_Witness ==
  /\ Filtered
  /\ only = True
  /\ query.partUsed = Str(<<"b","a","r","k">>)
  /\ and = AndObject(Undefined, Str(<<"b","a","r","k">>))
  /\ catalogReply.data = << Hevea, Bertholletia >>
  /\ ExclusiveEntries = {1}
  /\ AndEntries = {1, 2}
  /\ FinalSet = {1}

\* the position of an entry of the file in the ranked order
RankOf(idx) == CHOOSE k \in DOMAIN scored : scored[k].idx = idx

\* C8: the ranking is a permutation of the catalog with each entry's cosine
\* similarity, in non-increasing similarity, entries of equal similarity in
\* catalog order; the default-branch result is a subsequence of it.
C8_RankingStable ==
  Filtered
    => /\ Len(scored) = Len(dataWithEmbeddings)
       /\ {scored[k].idx : k \in DOMAIN scored} = DOMAIN dataWithEmbeddings
       /\ \A k \in DOMAIN scored :
            scored[k] = [dataWithEmbeddings[scored[k].idx] EXCEPT !.similarity =
                           cosineSimilarity(questionEmbedding, dataWithEmbeddings[scored[k].idx].embedding)]
       /\ \A k, l \in DOMAIN scored :
            k < l => /\ ~SimilarityLess(scored[k].similarity, scored[l].similarity)
                     /\ scored[k].similarity = scored[l].similarity => scored[k].idx < scored[l].idx
       /\ ~Truthy(only)
            => /\ \A i \in DOMAIN filtered : filtered[i] = scored[RankOf(filtered[i].idx)]
               /\ \A i, j \in DOMAIN filtered : i < j => RankOf(filtered[i].idx) < RankOf(filtered[j].idx)

\* three entries, the first and the last of equal similarity, ranked
C8_Witness ==
  /\ Filtered
  /\ only = Undefined
  /\ questionEmbedding = << 1, 1 >>
  /\ catalogReply.data = << Hevea, Unused, Bertholletia >>
  /\ scored[1].idx = 2
  /\ scored[2].idx = 1
  /\ scored[3].idx = 3
  /\ Len(filtered) = 3

\* the fallback has parsed a string question
FellBack == pc \in {"awaitEmbedding", "awaitCatalog", "awaitImages", "done"} /\ ~usedLLM /\ IsString(question)

\* the lower-cased question contains a synonym of entry i of the dictionary
ContainsSynonymOf(synonymsDict, i) ==
  \E j \in DOMAIN synonymsDict[i].synonyms :
    includes(toLowerCase(question.s), synonymsDict[i].synonyms[j])

\* the lower-cased question matches exclusivity pattern p
MatchesPattern(p) == matchGroup(toLowerCase(question.s), onlyPartsUsedPatterns[p]) # << >>

\* ecosystemService is the first service of the dictionary with a synonym in
\* the question, and partUsed is null
ServiceWins ==
  /\ \E i \in DOMAIN ecosystemServiceSynonyms :
       /\ ContainsSynonymOf(ecosystemServiceSynonyms, i)
       /\ \A h \in 1..(i - 1) : ~ContainsSynonymOf(ecosystemServiceSynonyms, h)
       /\ query.ecosystemService = Str(ecosystemServiceSynonyms[i].canonical)
  /\ query.partUsed = Null

\* the question contains a service synonym and a part synonym
HasServiceAndPart ==
  /\ \E i \in DOMAIN ecosystemServiceSynonyms : ContainsSynonymOf(ecosystemServiceSynonyms, i)
  /\ \E i \in DOMAIN partUsedSynonyms : ContainsSynonymOf(partUsedSynonyms, i)

\* C9 as stated: a question with a service synonym and a part synonym is
\* parsed to a canonical ecosystemService and a null partUsed.
C9_ServiceBeforePart_AsStated ==
  (FellBack /\ HasServiceAndPart) => ServiceWins

\* C9, amended: a question with a service synonym and a part synonym that
\* matches none of the exclusivity patterns is parsed to a canonical
\* ecosystemService and a null partUsed.
C9_ServiceBeforePart ==
  (FellBack /\ HasServiceAndPart /\ \A p \in DOMAIN onlyPartsUsedPatterns : ~MatchesPattern(p))
    => ServiceWins

\* "leavesWood" holds the part synonym "leaves" and "wood", a synonym of
\* the service Raw Material and of the part trunk
C9_Witness ==
  /\ FellBack
  /\ question = Str(<<"l","e","a","v","e","s","W","o","o","d">>)
  /\ HasServiceAndPart
  /\ \A p \in DOMAIN onlyPartsUsedPatterns : ~MatchesPattern(p)
  /\ query.ecosystemService = Str(<<"R","a","w"," ","M","a","t","e","r","i","a","l">>)
  /\ query.partUsed = Null
  /\ only = Undefined

\* the canonical part of a captured token, or the token
CanonicalPartOf(token) ==
  IF \E i \in DOMAIN partUsedSynonyms :
       \/ partUsedSynonyms[i].canonical = token
       \/ \E j \in DOMAIN partUsedSynonyms[i].synonyms : partUsedSynonyms[i].synonyms[j] = token
  THEN LET i == Least({h \in DOMAIN partUsedSynonyms :
                         \/ partUsedSynonyms[h].canonical = token
                         \/ \E j \in DOMAIN partUsedSynonyms[h].synonyms :
                              partUsedSynonyms[h].synonyms[j] = token})
       IN partUsedSynonyms[i].canonical
  ELSE token

-----------------------------------------------------------------------------
(* normalizeField: C11, C12 *)

\* the entry's canonical label or one of its synonyms, lower-cased, is lv
MatchesEntry(entry, lv) ==
  \/ toLowerCase(entry.canonical) = lv
  \/ \E j \in DOMAIN entry.synonyms : toLowerCase(entry.synonyms[j]) = lv

\* the entries of the table the value's trimmed, lower-cased form matches
MatchingEntries(v, table) == {i \in DOMAIN table : MatchesEntry(table[i], toLowerCase(trim(v)))}

\* every canonical label is not empty, and no entry before its own matches it
\* when its own does, no entry at all when its own does not
CanonicalsKept(table) ==
  \A i \in DOMAIN table :
    /\ table[i].canonical # << >>
    /\ \A k \in MatchingEntries(table[i].canonical, table) :
         i \in MatchingEntries(table[i].canonical, table) /\ k >= i

\* C11 as stated: normalizeField is idempotent for any synonym table and any
\* string or null value: called on what it returned, it returns the same
C11_Idempotent_AsStated ==
  Len(normResults) = 2 => normResults[2] = normResults[1]

\* C11: normalizeField is idempotent, for any string or null value, with any
\* synonym table whose canonical labels are not empty and are not matched by
\* another entry first, as is the case of both tables of the handler
C11_Idempotent ==
  (Len(normResults) = 2 /\ CanonicalsKept(normTable)) => normResults[2] = normResults[1]

\* a value that two entries match was replaced by the canonical label of the
\* first one, and the second call has returned
C11_Witness ==
  /\ Len(normResults) = 2
  /\ CanonicalsKept(normTable)
  /\ Cardinality(MatchingEntries(normValue.s, normTable)) = 2
  /\ normResults[1] # normValue
  /\ normResults[1] = Str(normTable[1].canonical)

\* C12 as stated: a string value that matches no canonical label and no
\* synonym is returned unchanged, and null is returned for null only
C12_PassThrough_AsStated ==
  Len(normResults) >= 1 =>
    /\ (IsString(normValue) /\ MatchingEntries(normValue.s, normTable) = {}) => normResults[1] = normValue
    /\ normResults[1] = Null => normValue = Null

\* C12: a string value that is not empty and matches no canonical label and
\* no synonym is returned unchanged, untrimmed and in its case, and null is
\* returned for null and for the empty string only
C12_PassThrough ==
  Len(normResults) >= 1 =>
    /\ (IsString(normValue) /\ normValue.s # << >> /\ MatchingEntries(normValue.s, normTable) = {})
         => normResults[1] = normValue
    /\ normResults[1] = Null <=> normValue \in {Null, Str(<< >>)}

\* a value with spaces around it and capitals in it that no entry of a table
\* of two entries matches was returned as it was given
C12_Witness ==
  /\ Len(normResults) >= 1
  /\ Len(normTable) = 2
  /\ IsString(normValue)
  /\ MatchingEntries(normValue.s, normTable) = {}
  /\ trim(normValue.s) # normValue.s
  /\ toLowerCase(normValue.s) # normValue.s
  /\ normResults[1] = normValue
-----------------------------------------------------------------------------
(* The image lookups: C13, C14 *)

RECURSIVE MediaOf(_, _)
\* the media of the first n occurrences of a reply, in order
MediaOf(results, n) == IF n = 0 THEN << >> ELSE MediaOf(results, n - 1) \o results[n]

IsUsableStill(media) == media.type = "StillImage" /\ media.identifier # 0

\* the identifiers of the still images of a reply, in order
StillsOf(reply) ==
  LET usable == SelectSeq(MediaOf(reply.results, Len(reply.results)), IsUsableStill)
  IN [k \in 1..Len(usable) |-> usable[k].identifier]

\* what the lookup of one entry gives on its own: nothing when it fails, the
\* first 5 still images of its reply otherwise
OwnImages(reply) ==
  IF reply.outcome # "ok" THEN << >>
  ELSE SubSeq(StillsOf(reply), 1, IF Len(StillsOf(reply)) < 5 THEN Len(StillsOf(reply)) ELSE 5)

LookupFailed(i) == gbifReplies[filtered[i].idx].outcome # "ok"

\* C13: a failed image lookup never fails the request and never changes
\* another entry: once lookups have started no error is answered, every
\* settled lookup holds the images of its own reply (none when it failed), a
\* results response holds every entry of filtered in the same order, and no
\* entry has more than 5 images
C13_ImageFailureIsolated ==
  /\ calls.image > 0 => response.kind # "error"
  /\ pc = "awaitImages" =>
       \A i \in (1..Len(filtered)) \ pending : images[i] = OwnImages(gbifReplies[filtered[i].idx])
  /\ response.kind = "results" =>
       /\ Len(response.results) = Len(filtered)
       /\ \A i \in 1..Len(filtered) :
            /\ response.results[i].item = filtered[i]
            /\ response.results[i].images = OwnImages(gbifReplies[filtered[i].idx])
            /\ LookupFailed(i) => response.results[i].images = << >>
            /\ Len(response.results[i].images) <= 5

\* a results response of two entries: the lookup of one raised and it has no
\* image, the reply of the other held more than 5 still images and it has 5
C13_Witness ==
  /\ response.kind = "results"
  /\ Len(response.results) = 2
  /\ \E i, j \in 1..2 :
       /\ gbifReplies[filtered[i].idx].outcome = "rejects"
       /\ response.results[i].images = << >>
       /\ gbifReplies[filtered[j].idx].outcome = "ok"
       /\ Len(StillsOf(gbifReplies[filtered[j].idx])) > 5
       /\ Len(response.results[j].images) = 5

\* C14: the image lookup is invoked exactly once per entry of filtered, and
\* the lookups in flight stay within a limit that does not grow with
\* filtered: they are fewer than the longest result set, of MaxCatalog
\* entries, at every moment
C14_BoundedLookups ==
  /\ pc \in {"awaitImages", "done"} /\ response.kind # "error" => calls.image = Len(filtered)
  /\ Cardinality(pending) < MaxCatalog
-----------------------------------------------------------------------------
(* The exclusivity branch and the ranking: C15, C16, C17 *)

\* C15: every entry of a results response carries a similarity, the cosine
\* similarity of its embedding and the question embedding of the request,
\* whichever branch produced it
C15_ResultsAreScored ==
  response.kind = "results" =>
    \A i \in DOMAIN response.results :
      /\ response.results[i].item.similarity # NoSimilarity
      /\ response.results[i].item.similarity =
           cosineSimilarity(questionEmbedding, response.results[i].item.embedding)

\* C16: the ranking leaves the loaded catalog as it was loaded, the same
\* entries in the same order and without similarity, and when `only` is
\* truthy the result is a subsequence of the catalog in catalog order, made
\* of the catalog's own entries, whatever the ranking computed
C16_CatalogOrderKept ==
  Filtered
    => /\ Len(dataWithEmbeddings) = Len(catalogReply.data)
       /\ \A i \in DOMAIN dataWithEmbeddings :
            /\ dataWithEmbeddings[i].idx = i
            /\ dataWithEmbeddings[i].Species = catalogReply.data[i].Species
            /\ dataWithEmbeddings[i].EcosystemService = catalogReply.data[i].EcosystemService
            /\ dataWithEmbeddings[i].PartsUsed = catalogReply.data[i].PartsUsed
            /\ dataWithEmbeddings[i].embedding = catalogReply.data[i].embedding
            /\ dataWithEmbeddings[i].similarity = NoSimilarity
       /\ Truthy(only)
            => /\ \A i \in DOMAIN filtered : filtered[i] = dataWithEmbeddings[filtered[i].idx]
               /\ \A i, j \in DOMAIN filtered : i < j => filtered[i].idx < filtered[j].idx

\* `only` is set, two entries are kept in catalog order, and the ranking had
\* put the second before the first
C16_Witness ==
  /\ Filtered
  /\ Truthy(only)
  /\ Len(filtered) = 2
  /\ filtered[1].idx < filtered[2].idx
  /\ RankOf(filtered[2].idx) < RankOf(filtered[1].idx)
  /\ scored[RankOf(filtered[2].idx)].similarity # NoSimilarity

\* the species an extraction may return
OtherSpecies == {Null, Str(<< >>), Str(QuestionBark), Num} \cup
                {Str(dataWithEmbeddings[i].Species) : i \in DOMAIN dataWithEmbeddings}

\* C17: when `only` is truthy the result does not depend on query.species:
\* the request that differs in query.species alone, with the same
\* ecosystemService, partUsed, `and` and catalog, gets the same result
C17_OnlyIgnoresSpecies ==
  (Filtered /\ Truthy(only))
    => \A species \in OtherSpecies :
         combineFilters(dataWithEmbeddings, scored, [query EXCEPT !.species = species], only, and)
           = [threw |-> FALSE, items |-> filtered]

\* `only` is set, the extraction returned a species, and an entry whose
\* name does not hold it is in the result
C17_Witness ==
  /\ Filtered
  /\ Truthy(only)
  /\ IsString(query.species)
  /\ query.species.s # << >>
  /\ Truthy(query.partUsed)
  /\ \E i \in DOMAIN filtered :
       ~includes(toLowerCase(filtered[i].Species), toLowerCase(query.species.s))
====
